---- MODULE Spec2Model ----
(***************************************************************************)
(* A model of src/src/mtm.py: the multitask wrapper around a pretrained-   *)
(* model training framework.                                               *)
(*                                                                         *)
(*   Spec          MultitaskDataloader over DataLoaderWithTaskname sources *)
(*                 (the proportional task sampler and its passes)          *)
(*   SpecModel     MultitaskModel.create / get_encoder_attr_name / forward *)
(*   SpecCollator  NLPDataCollator.collate_batch                           *)
(*   SpecTrainer   MultitaskTrainer.get_train_dataloader                   *)
(*                                                                         *)
(* Python semantics assumed throughout: CPython >= 3.7 (PEP 479: a         *)
(* StopIteration that escapes the body of a generator is replaced by       *)
(* RuntimeError), dicts keep insertion order.                              *)
(***************************************************************************)
EXTENDS Integers, Sequences, FiniteSets, TLC

VARIABLES
    \* ---- MultitaskDataloader ----
    dataloader_dict,    \* task name -> DataLoaderWithTaskname (len, supply)
    num_batches_dict,   \* task name -> len(dataloader), taken in __init__
    task_name_list,     \* list(dataloader_dict): the keys in insertion order
    passes,             \* pass id -> the generator object __iter__ returned
    \* ---- MultitaskTrainer ----
    train_dataset,      \* Trainer.train_dataset: None, or task name -> dataset
    args,               \* Trainer.args: train_batch_size, local_rank
    loader_result,      \* what get_train_dataloader did
    \* ---- MultitaskModel ----
    model_type_dict,    \* the (task name, model class name) items in order
    create_result,      \* what MultitaskModel.create did
    encoder,            \* MultitaskModel.encoder
    taskmodels_dict,    \* task name -> task model (head)
    forward_call,       \* the last forward(task_name, **kwargs) call
    \* ---- NLPDataCollator ----
    features,           \* the argument of collate_batch
    collate_result      \* what collate_batch did

samplerVars  == <<dataloader_dict, num_batches_dict, task_name_list, passes>>
trainerVars  == <<train_dataset, args, loader_result>>
modelVars    == <<model_type_dict, create_result, encoder, taskmodels_dict,
                  forward_call>>
collatorVars == <<features, collate_result>>
vars == <<samplerVars, trainerVars, modelVars, collatorVars>>

\* ------------------------------------------------------------------------
\* Bounds
\* ------------------------------------------------------------------------
\* The largest batch count a source declares (len(data_loader)).
MaxBatches == 2
\* The task identifiers of the sampler and of the trainer.
TaskNames == {"A", "B"}
\* The generator objects of one sampler that are alive at the same time.
PassIds == {1, 2}

\* ------------------------------------------------------------------------
\* Helpers
\* ------------------------------------------------------------------------
Range(s) == {s[i] : i \in DOMAIN s}

Count(s, v) == Cardinality({i \in DOMAIN s : s[i] = v})

RECURSIVE SumOver(_, _)
SumOver(f, S) ==
    IF S = {} THEN 0
    ELSE LET x == CHOOSE y \in S : TRUE IN f[x] + SumOver(f, S \ {x})

\* [v] * n
Repeat(v, n) == [i \in 1..n |-> v]

\* The lists of distinct elements of S: the key orders a dict over a subset
\* of S can have.
RECURSIVE OrderedLists(_)
OrderedLists(S) ==
    {<<>>} \cup UNION {{<<x>> \o l : l \in OrderedLists(S \ {x})} : x \in S}

\* ------------------------------------------------------------------------
\* DataLoaderWithTaskname
\* ------------------------------------------------------------------------
\* A wrapped data_loader is known by what len() says of it and by how many
\* batches one iteration of it supplies; for a map-style DataLoader the two
\* agree, for any other iterable handed to the wrapper they need not.
\* The wrapper is registered under its own task name (lines 207-210).
Source(task_name, len, supply) ==
    [task_name |-> task_name, len |-> len, supply |-> supply]

\* DataLoaderWithTaskname.__len__
DataLoaderLen(dl) == dl.len

\* One step of the generator DataLoaderWithTaskname.__iter__, whose
\* underlying iterator has already produced `taken` batches: the next batch
\* of data_loader, tagged with the wrapper's own task name, or StopIteration
\* when the for loop over data_loader ends.
StopIteration == [kind |-> "StopIteration"]

TaggedNext(dl, taken) ==
    IF taken < dl.supply
    THEN [kind |-> "batch", task_name |-> dl.task_name, batch |-> taken + 1]
    ELSE StopIteration

\* ------------------------------------------------------------------------
\* MultitaskDataloader
\* ------------------------------------------------------------------------
\* __init__: num_batches_dict
NumBatchesDict(d) == [t \in DOMAIN d |-> DataLoaderLen(d[t])]

\* (mutant) len() of the mapping: the number of tasks, not of batches
MultitaskLenTasks == Cardinality(DOMAIN num_batches_dict)

\* __len__
MultitaskLen == SumOver(num_batches_dict, DOMAIN num_batches_dict)

\* __iter__, the list before the shuffle: for i, task_name in
\* enumerate(task_name_list): task_choice_list += [i] * num_batches_dict[..]
RECURSIVE TaskChoiceListFrom(_)
TaskChoiceListFrom(i) ==
    IF i > Len(task_name_list) THEN <<>>
    ELSE Repeat(i, num_batches_dict[task_name_list[i]])
         \o TaskChoiceListFrom(i + 1)

\* (mutant) uniform task sampling: every task once, whatever its size
TaskChoiceListUniform == [i \in 1..Len(task_name_list) |-> i]

TaskChoiceList == TaskChoiceListFrom(1)

\* np.random.shuffle: any rearrangement of the list
Shuffles(l) ==
    {s \in [1..Len(l) -> Range(l)] : \A v \in Range(l) : Count(s, v) = Count(l, v)}

\* (mutant) the per-task iterators are kept on the sampler and reused by
\* every pass: a new pass finds them where the passes before left them
ReusedIterDict(d) ==
    [t \in DOMAIN d |->
        LET used == {passes[p].iters[t] :
                        p \in {q \in PassIds : t \in DOMAIN passes[q].iters}}
        IN IF used = {} THEN 0 ELSE CHOOSE m \in used : \A u \in used : u <= m]

\* dataloader_iter_dict: one new iterator per task, none has produced a batch
DataloaderIterDict(d) == [t \in DOMAIN d |-> 0]

NoError == [kind |-> "None"]

NoPass ==
    [status |-> "none", task_choice_list |-> <<>>, pos |-> 0,
     iters |-> <<>>, out |-> <<>>, error |-> NoError]

\* iter(multitask_dataloader): a generator object whose body has not run
NewPass == [NoPass EXCEPT !.status = "created"]

\* (mutant) one iterator shared by all tasks: a next() for one task moves
\* every task's position
AdvanceAll(iters, task_name) == [t \in DOMAIN iters |-> iters[t] + 1]

\* next(dataloader_iter_dict[task_name]) moves that task's iterator only
Advance(iters, task_name) == [iters EXCEPT ![task_name] = iters[task_name] + 1]

\* (mutant) a source that runs out ends the pass as if the list were walked:
\* the silent truncation of `except StopIteration: return`
LoopStepSilent(g) ==
    IF g.pos > Len(g.task_choice_list)
    THEN [g EXCEPT !.status = "done"]
    ELSE LET task_name == task_name_list[g.task_choice_list[g.pos]]
             b == TaggedNext(dataloader_dict[task_name], g.iters[task_name])
         IN IF b = StopIteration
            THEN [g EXCEPT !.status = "done"]
            ELSE [g EXCEPT !.status = "running",
                           !.pos = g.pos + 1,
                           !.iters = Advance(g.iters, task_name),
                           !.out = Append(g.out, b)]

\* The generator resumed at the head of `for task_choice in task_choice_list`
\* with `g` its frame: the loop ends (the generator returns), or the next
\* entry picks a task and next(dataloader_iter_dict[task_name]) is yielded;
\* a StopIteration from that next() leaves the generator body and reaches
\* the caller as RuntimeError.
LoopStep(g) ==
    IF g.pos > Len(g.task_choice_list)
    THEN [g EXCEPT !.status = "done"]
    ELSE LET task_name == task_name_list[g.task_choice_list[g.pos]]
             b == TaggedNext(dataloader_dict[task_name], g.iters[task_name])
         IN IF b = StopIteration
            THEN [g EXCEPT !.status = "error",
                           !.error = [kind |-> "RuntimeError",
                                      cause |-> "StopIteration",
                                      task_name |-> task_name,
                                      step |-> g.pos]]
            ELSE [g EXCEPT !.status = "running",
                           !.pos = g.pos + 1,
                           !.iters = Advance(g.iters, task_name),
                           !.out = Append(g.out, b)]

\* The first next() on the generator: lines 159-167, then the loop.
FirstStep(shuffled) ==
    LoopStep([status |-> "created", task_choice_list |-> shuffled, pos |-> 1,
              iters |-> DataloaderIterDict(dataloader_dict), out |-> <<>>,
              error |-> NoError])

SamplerInit ==
    /\ task_name_list \in OrderedLists(TaskNames)
    /\ \E lens \in [Range(task_name_list) -> 0..MaxBatches],
          supplies \in [Range(task_name_list) -> 0..(MaxBatches + 1)] :
           dataloader_dict =
               [t \in Range(task_name_list) |-> Source(t, lens[t], supplies[t])]
    /\ num_batches_dict = NumBatchesDict(dataloader_dict)
    /\ passes = [p \in PassIds |-> NoPass]

SamplerIdle ==
    /\ task_name_list = <<>>
    /\ dataloader_dict = <<>>
    /\ num_batches_dict = <<>>
    /\ passes = [p \in PassIds |-> NoPass]

\* iter(sampler): a new pass; the variable that held an earlier generator
\* (finished, failed or partly consumed) may be the one that is rebound.
Iter(p) ==
    /\ passes[p].status # "created"
    /\ passes' = [passes EXCEPT ![p] = NewPass]
    /\ UNCHANGED <<dataloader_dict, num_batches_dict, task_name_list>>

\* next(generator)
NextBatch(p) ==
    /\ \/ /\ passes[p].status = "created"
          /\ \E shuffled \in Shuffles(TaskChoiceList) :
                 passes' = [passes EXCEPT ![p] = FirstStep(shuffled)]
       \/ /\ passes[p].status = "running"
          /\ passes' = [passes EXCEPT ![p] = LoopStep(passes[p])]
    /\ UNCHANGED <<dataloader_dict, num_batches_dict, task_name_list>>

\* ------------------------------------------------------------------------
\* MultitaskModel
\* ------------------------------------------------------------------------
\* The task identifiers of the model, and one the model never holds.
ModelTasks == {"A", "B", "C"}
AbsentTask == "Z"
\* The keyword inputs of a forward call.
Inputs == {"x1", "x2"}

\* model.__class__.__name__, a string as the sequence of its characters.
BertForMaskedLM ==
    <<"B", "e", "r", "t", "F", "o", "r", "M", "a", "s", "k", "e", "d", "L",
      "M">>
RobertaForMaskedLM ==
    <<"R", "o", "b", "e", "r", "t", "a", "F", "o", "r", "M", "a", "s", "k",
      "e", "d", "L", "M">>
AlbertForMaskedLM ==
    <<"A", "l", "b", "e", "r", "t", "F", "o", "r", "M", "a", "s", "k", "e",
      "d", "L", "M">>
DistilBertForMaskedLM ==
    <<"D", "i", "s", "t", "i", "l", "B", "e", "r", "t", "F", "o", "r", "M",
      "a", "s", "k", "e", "d", "L", "M">>
XLNetLMHeadModel ==
    <<"X", "L", "N", "e", "t", "L", "M", "H", "e", "a", "d", "M", "o", "d",
      "e", "l">>
BartForConditionalGeneration ==
    <<"B", "a", "r", "t", "F", "o", "r", "C", "o", "n", "d", "i", "t", "i",
      "o", "n", "a", "l", "G", "e", "n", "e", "r", "a", "t", "i", "o", "n">>

ClassNames ==
    {BertForMaskedLM, RobertaForMaskedLM, AlbertForMaskedLM,
     DistilBertForMaskedLM, XLNetLMHeadModel, BartForConditionalGeneration}

\* str.startswith
StartsWith(s, prefix) ==
    /\ Len(s) >= Len(prefix)
    /\ SubSeq(s, 1, Len(prefix)) = prefix

Returned(v) == [kind |-> "return", value |-> v]
KeyError(k) == [kind |-> "KeyError", key |-> k]

\* (mutant) a registry without its last family
GetEncoderAttrNameNoAlbert(model_class_name) ==
    IF StartsWith(model_class_name, <<"B", "e", "r", "t">>)
    THEN Returned("bert")
    ELSE IF StartsWith(model_class_name, <<"R", "o", "b", "e", "r", "t", "a">>)
    THEN Returned("roberta")
    ELSE KeyError(model_class_name)

\* get_encoder_attr_name
GetEncoderAttrName(model_class_name) ==
    IF StartsWith(model_class_name, <<"B", "e", "r", "t">>)
    THEN Returned("bert")
    ELSE IF StartsWith(model_class_name, <<"R", "o", "b", "e", "r", "t", "a">>)
    THEN Returned("roberta")
    ELSE IF StartsWith(model_class_name, <<"A", "l", "b", "e", "r", "t">>)
    THEN Returned("albert")
    ELSE KeyError(model_class_name)

\* The attribute in which a task model of the class keeps the encoder it
\* loads (the classes are task models, encoder plus head).
OwnEncoderAttr(model_class_name) ==
    CASE model_class_name = BertForMaskedLM -> "bert"
      [] model_class_name = RobertaForMaskedLM -> "roberta"
      [] model_class_name = AlbertForMaskedLM -> "albert"
      [] model_class_name = DistilBertForMaskedLM -> "distilbert"
      [] model_class_name = XLNetLMHeadModel -> "transformer"
      [] model_class_name = BartForConditionalGeneration -> "model"

NoEncoder == [kind |-> "None"]
Encoder(n) == [kind |-> "encoder", id |-> n]

\* model_type.from_pretrained(model_name, config=...): the n-th model built,
\* a new object that owns a newly loaded encoder.
FromPretrained(model_class_name, n) ==
    [id |-> n, class |-> model_class_name,
     attrs |-> [a \in {OwnEncoderAttr(model_class_name)} |-> Encoder(n)]]

\* getattr(model, name), name an attribute the model has
GetAttr(model, name) == model.attrs[name]

\* (mutant) the encoder attribute is left as loaded
SetAttrDropped(model, name, value) == model

\* setattr(model, name, value)
SetAttr(model, name, value) ==
    [model EXCEPT !.attrs =
        [a \in DOMAIN model.attrs \cup {name} |->
            IF a = name THEN value ELSE model.attrs[a]]]

\* The loop of create from the i-th item of model_type_dict on; `lookups`
\* logs what each call of get_encoder_attr_name did.
RECURSIVE CreateFrom(_, _, _, _, _)
CreateFrom(items, i, shared_encoder, heads, lookups) ==
    IF i > Len(items)
    THEN [kind |-> "model", encoder |-> shared_encoder,
          taskmodels_dict |-> heads, lookups |-> lookups]
    ELSE LET task_name == items[i][1]
             model == FromPretrained(items[i][2], i)
             attr == GetEncoderAttrName(model.class)
         IN IF attr.kind = "KeyError"
            THEN [kind |-> "KeyError", encoder |-> NoEncoder,
                  taskmodels_dict |-> <<>>, lookups |-> Append(lookups, attr)]
            ELSE IF shared_encoder = NoEncoder
            THEN CreateFrom(items, i + 1, GetAttr(model, attr.value),
                            heads @@ (task_name :> model),
                            Append(lookups, attr))
            ELSE CreateFrom(items, i + 1, shared_encoder,
                            heads @@ (task_name :>
                                SetAttr(model, attr.value, shared_encoder)),
                            Append(lookups, attr))

\* The forward of one task model: it reads the encoder its attribute holds.
HeadForward(model, kwargs) ==
    [head |-> model.id,
     encoder |-> GetAttr(model, GetEncoderAttrName(model.class).value),
     kwargs |-> kwargs]

NoCall == [kind |-> "None"]

\* (mutant) an unknown task is served by some configured head
ForwardWithDefault(task_name, kwargs) ==
    IF taskmodels_dict = <<>>
    THEN [kind |-> "KeyError", task_name |-> task_name, kwargs |-> kwargs,
          invoked |-> <<>>]
    ELSE LET t == IF task_name \in DOMAIN taskmodels_dict THEN task_name
                  ELSE CHOOSE u \in DOMAIN taskmodels_dict : TRUE
         IN [kind |-> "return", task_name |-> task_name, kwargs |-> kwargs,
             invoked |-> <<t>>,
             value |-> HeadForward(taskmodels_dict[t], kwargs)]

\* forward: self.taskmodels_dict[task_name](**kwargs); `invoked` lists the
\* heads that were called.
ForwardOf(task_name, kwargs) ==
    IF task_name \notin DOMAIN taskmodels_dict
    THEN [kind |-> "KeyError", task_name |-> task_name, kwargs |-> kwargs,
          invoked |-> <<>>]
    ELSE [kind |-> "return", task_name |-> task_name, kwargs |-> kwargs,
          invoked |-> <<task_name>>,
          value |-> HeadForward(taskmodels_dict[task_name], kwargs)]

NotCreated == [kind |-> "None"]

\* The arguments of create: the items of model_type_dict in insertion order.
ModelTypeDicts ==
    UNION {[1..Len(l) -> ClassNames] \X {l} : l \in OrderedLists(ModelTasks)}

ItemsOf(pair) == [i \in 1..Len(pair[2]) |-> <<pair[2][i], pair[1][i]>>]

ModelInit ==
    /\ model_type_dict \in {ItemsOf(pair) : pair \in ModelTypeDicts}
    /\ create_result = NotCreated
    /\ encoder = NoEncoder
    /\ taskmodels_dict = <<>>
    /\ forward_call = NoCall

\* MultitaskModel.create(model_name, model_type_dict, model_config_dict)
Create ==
    /\ create_result = NotCreated
    /\ LET r == CreateFrom(model_type_dict, 1, NoEncoder, <<>>, <<>>) IN
       /\ create_result' = [kind |-> r.kind, lookups |-> r.lookups]
       /\ encoder' = r.encoder
       /\ taskmodels_dict' = r.taskmodels_dict
    /\ UNCHANGED <<model_type_dict, forward_call>>

\* model.forward(task_name, **kwargs) on the model create returned
Forward(task_name, kwargs) ==
    /\ create_result.kind = "model"
    /\ forward_call' = ForwardOf(task_name, kwargs)
    /\ UNCHANGED <<model_type_dict, create_result, encoder, taskmodels_dict>>

\* ------------------------------------------------------------------------
\* NLPDataCollator
\* ------------------------------------------------------------------------
\* The most examples in one call of collate_batch.
MaxExamples == 2
\* The field names of an example.
FieldNames == {"labels", "input_ids", "text"}
\* The scalars a tensor of an example holds.
Scalars == {0, 1}

NoneValue == [kind |-> "None"]
StrValue == [kind |-> "str"]
Tensor(dtype, data) == [kind |-> "tensor", dtype |-> dtype, data |-> data]

\* What a field holds in every example of one call: None, a string, or a
\* tensor of one dtype ("labels" is never a string).
FieldKinds == {"None", "str", "int64", "float32"}

ValuesOfKind(k) ==
    CASE k = "None" -> {NoneValue}
      [] k = "str" -> {StrValue}
      [] OTHER -> {Tensor(k, v) : v \in Scalars}

\* The field sets of the examples, with the kind of every field.
Shapes ==
    {sh \in UNION {[F -> FieldKinds] : F \in SUBSET FieldNames \ {{}}} :
        "labels" \in DOMAIN sh => sh["labels"] # "str"}

DictExamples(sh) ==
    {[kind |-> "dict", fields |-> f] :
        f \in {g \in [DOMAIN sh -> UNION {ValuesOfKind(k) : k \in FieldKinds}] :
                  \A n \in DOMAIN sh : g[n] \in ValuesOfKind(sh[n])}}

\* An example that is not a dict (an InputDataClass instance).
ObjectExample == [kind |-> "object"]

FeatureLists ==
    UNION {[1..n -> {ObjectExample}] : n \in 1..MaxExamples}
    \cup UNION {UNION {[1..n -> DictExamples(sh)] : n \in 1..MaxExamples} :
                  sh \in Shapes}

\* torch.tensor([f["labels"] for f in features], dtype=dtype)
LabelsTensor(fs, dtype) ==
    Tensor(dtype, [i \in 1..Len(fs) |-> fs[i].fields["labels"].data])

\* torch.stack([f[k] for f in features])
Stack(fs, k) ==
    Tensor(fs[1].fields[k].dtype, [i \in 1..Len(fs) |-> fs[i].fields[k].data])

\* The keys of `first` the loop of lines 89-91 stacks.
StackedKeys(first) ==
    {k \in DOMAIN first.fields :
        /\ k # "labels"
        /\ first.fields[k] # NoneValue
        /\ first.fields[k].kind # "str"}

\* lines 81-88: batch is None unless "labels" is there and is not None
LabelsBatch(fs) ==
    LET first == fs[1] IN
    IF "labels" \in DOMAIN first.fields /\ first.fields["labels"] # NoneValue
    THEN IF first.fields["labels"].dtype = "int64"
         THEN [kind |-> "dict",
               fields |-> [k \in {"labels"} |-> LabelsTensor(fs, "int64")]]
         ELSE [kind |-> "dict",
               fields |-> [k \in {"labels"} |-> LabelsTensor(fs, "float32")]]
    ELSE NoneValue

\* collate_batch. The loop writes batch[k] for every stacked key, in the key
\* order of `first`; with batch still None the first such write raises
\* TypeError ('NoneType' object does not support item assignment), whichever
\* key comes first.
CollateBatchOf(fs) ==
    LET first == fs[1] IN
    IF first.kind = "dict"
    THEN LET batch == LabelsBatch(fs)
             keys == StackedKeys(first)
         IN IF keys = {}
            THEN [kind |-> "return", value |-> batch]
            ELSE IF batch = NoneValue
            THEN [kind |-> "TypeError"]
            ELSE [kind |-> "return",
                  value |-> [kind |-> "dict",
                             fields |-> [k \in keys \cup {"labels"} |->
                                 IF k = "labels" THEN batch.fields["labels"]
                                 ELSE Stack(fs, k)]]]
    ELSE [kind |-> "delegated"]

NotCalled == [kind |-> "None"]

CollatorInit ==
    /\ features \in FeatureLists
    /\ collate_result = NotCalled

\* NLPDataCollator().collate_batch(features)
CollateBatch ==
    /\ collate_result = NotCalled
    /\ collate_result' = CollateBatchOf(features)
    /\ UNCHANGED features

\* ------------------------------------------------------------------------
\* MultitaskTrainer
\* ------------------------------------------------------------------------
\* The most examples of one task's dataset.
MaxDatasetLen == 3
\* The processes a DistributedSampler splits a dataset over.
NumReplicas == 2
BatchSizes == {1, 2}
LocalRanks == {-1, 0}

NoDataset == [kind |-> "None"]

\* train_dataset: None or a mapping task name -> dataset; a dataset is known
\* by its length, the mapping by its keys in insertion order.
TrainDatasets ==
    {NoDataset} \cup
    UNION {{[kind |-> "dict", keys |-> l, len |-> n] :
               n \in [Range(l) -> 1..MaxDatasetLen]} : l \in OrderedLists(TaskNames)}

CeilDiv(a, b) == (a + b - 1) \div b

\* len(RandomSampler(ds)) or len(DistributedSampler(ds)), by args.local_rank
SamplerLen(n) ==
    IF args.local_rank = -1 THEN n ELSE CeilDiv(n, NumReplicas)

\* get_single_train_dataloader: the check of self.train_dataset, then a
\* DataLoader over the sampler, whose len() is the number of batches one
\* iteration supplies, wrapped with the task name.
GetSingleTrainDataloader(task_name, n) ==
    IF train_dataset = NoDataset
    THEN [kind |-> "ValueError",
          message |-> "Trainer: training requires a train_dataset."]
    ELSE LET batches == CeilDiv(SamplerLen(n), args.train_batch_size)
         IN [kind |-> "return", value |-> Source(task_name, batches, batches)]

\* get_train_dataloader: self.train_dataset.items() is evaluated first; on
\* None it raises AttributeError before any get_single_train_dataloader call.
\* `sources` counts the wrappers built, `sampler` tells whether a
\* MultitaskDataloader was.
GetTrainDataloaderOf ==
    IF train_dataset = NoDataset
    THEN [kind |-> "AttributeError",
          message |-> "'NoneType' object has no attribute 'items'",
          sources |-> 0, sampler |-> FALSE, dataloader_dict |-> <<>>]
    ELSE LET single == [t \in Range(train_dataset.keys) |->
                           GetSingleTrainDataloader(t, train_dataset.len[t])]
         IN [kind |-> "return", message |-> "",
             sources |-> Len(train_dataset.keys), sampler |-> TRUE,
             dataloader_dict |-> [t \in DOMAIN single |-> single[t].value]]

NoLoader == [kind |-> "None"]

TrainerInit ==
    /\ train_dataset \in TrainDatasets
    /\ args \in [train_batch_size : BatchSizes, local_rank : LocalRanks]
    /\ loader_result = NoLoader

TrainerIdle ==
    /\ train_dataset = NoDataset
    /\ args = [train_batch_size |-> 1, local_rank |-> -1]
    /\ loader_result = NoLoader

\* trainer.get_train_dataloader(): on success the sampler is constructed
\* (MultitaskDataloader.__init__) over the wrappers.
GetTrainDataloader ==
    /\ loader_result = NoLoader
    /\ LET r == GetTrainDataloaderOf IN
       /\ loader_result' = [kind |-> r.kind, message |-> r.message,
                            sources |-> r.sources, sampler |-> r.sampler]
       /\ dataloader_dict' = r.dataloader_dict
       /\ num_batches_dict' = NumBatchesDict(r.dataloader_dict)
       /\ task_name_list' =
              IF r.kind = "return" THEN train_dataset.keys ELSE <<>>
    /\ UNCHANGED <<train_dataset, args, passes>>


ModelIdle ==
    /\ model_type_dict = <<>>
    /\ create_result = NotCreated
    /\ encoder = NoEncoder
    /\ taskmodels_dict = <<>>
    /\ forward_call = NoCall

CollatorIdle ==
    /\ features = <<>>
    /\ collate_result = NotCalled

Init == SamplerInit /\ TrainerIdle /\ ModelIdle /\ CollatorIdle

Next ==
    \/ \E p \in PassIds : Iter(p) /\ UNCHANGED <<trainerVars, modelVars, collatorVars>>
    \/ \E p \in PassIds : NextBatch(p) /\ UNCHANGED <<trainerVars, modelVars, collatorVars>>

Spec == Init /\ [][Next]_vars

InitModel == SamplerIdle /\ TrainerIdle /\ ModelInit /\ CollatorIdle

NextModel ==
    \/ Create /\ UNCHANGED <<samplerVars, trainerVars, collatorVars>>
    \/ \E task_name \in ModelTasks \cup {AbsentTask}, kwargs \in Inputs :
           Forward(task_name, kwargs)
           /\ UNCHANGED <<samplerVars, trainerVars, collatorVars>>

SpecModel == InitModel /\ [][NextModel]_vars

InitCollator == SamplerIdle /\ TrainerIdle /\ ModelIdle /\ CollatorInit

NextCollator == CollateBatch /\ UNCHANGED <<samplerVars, trainerVars, modelVars>>

SpecCollator == InitCollator /\ [][NextCollator]_vars

InitTrainer == SamplerIdle /\ TrainerInit /\ ModelIdle /\ CollatorIdle

\* The training loop iterates over the sampler get_train_dataloader returned.
NextTrainer ==
    \/ GetTrainDataloader /\ UNCHANGED <<modelVars, collatorVars>>
    \/ \E p \in PassIds :
           /\ loader_result.kind = "return"
           /\ Iter(p)
           /\ UNCHANGED <<trainerVars, modelVars, collatorVars>>
    \/ \E p \in PassIds :
           /\ loader_result.kind = "return"
           /\ NextBatch(p)
           /\ UNCHANGED <<trainerVars, modelVars, collatorVars>>

SpecTrainer == InitTrainer /\ [][NextTrainer]_vars

\* ------------------------------------------------------------------------
\* The sampler's properties
\* ------------------------------------------------------------------------
Started(g) == g.status \in {"running", "done", "error"}

\* The batches of `out` tagged t, in the order they were yielded.
RECURSIVE TaggedWith(_, _)
TaggedWith(out, t) ==
    IF out = <<>> THEN <<>>
    ELSE LET rest == TaggedWith(Tail(out), t)
         IN IF Head(out).task_name = t THEN <<Head(out).batch>> \o rest ELSE rest

CountTagged(out, t) == Cardinality({i \in DOMAIN out : out[i].task_name = t})

\* count(t): what the source for t declared, 0 for a task that has no source
Declared(t) ==
    IF t \in DOMAIN dataloader_dict THEN dataloader_dict[t].len ELSE 0

SumDeclared == SumOver([t \in TaskNames |-> Declared(t)], TaskNames)

\* every iterator supplies at least the declared batch count
SuppliesDeclared ==
    \A t \in DOMAIN dataloader_dict : dataloader_dict[t].supply >= dataloader_dict[t].len

ShortTasks ==
    {t \in DOMAIN dataloader_dict : dataloader_dict[t].supply < dataloader_dict[t].len}

\* C1: when every source supplies at least its declared batch count, a pass
\* does not fail, and a completed pass has yielded, for every task t, exactly
\* count(t) batches tagged t, whatever the shuffle was.
C1_Frequency ==
    \A p \in PassIds :
        SuppliesDeclared =>
            /\ passes[p].status # "error"
            /\ passes[p].status = "done" =>
                   \A t \in TaskNames : CountTagged(passes[p].out, t) = Declared(t)

\* A completed pass over two tasks with different counts whose first batch is
\* of the task listed second.
C1_Witness ==
    \E p \in PassIds :
        /\ passes[p].status = "done"
        /\ SuppliesDeclared
        /\ Len(task_name_list) = 2
        /\ Declared(task_name_list[1]) = 2
        /\ Declared(task_name_list[2]) = 1
        /\ passes[p].out[1].task_name = task_name_list[2]

\* C2: a pass that runs to its end has yielded as many batches as the declared
\* per-task counts sum to, which is what __len__ reports; no pass ever yields
\* more. Holds with no task and with tasks that declare zero batches.
C2_TotalLength ==
    /\ MultitaskLen = SumDeclared
    /\ \A p \in PassIds :
           /\ Len(passes[p].out) <= MultitaskLen
           /\ passes[p].status = "done" => Len(passes[p].out) = MultitaskLen

\* A completed pass of positive length over a task that declares zero batches
\* and one that declares some.
C2_Witness ==
    \E p \in PassIds :
        /\ passes[p].status = "done"
        /\ \E t \in DOMAIN dataloader_dict : Declared(t) = 0
        /\ Len(passes[p].out) = MultitaskLen
        /\ MultitaskLen > 0

\* The step of the shuffled list that asks for the first batch task t cannot
\* supply: the (supply + 1)-th entry of t.
FirstMissingStep(g, t) ==
    CHOOSE i \in DOMAIN g.task_choice_list :
        /\ task_name_list[g.task_choice_list[i]] = t
        /\ Cardinality({j \in 1..i : task_name_list[g.task_choice_list[j]] = t})
               = dataloader_dict[t].supply + 1

\* C3: with a source that declares more batches than it supplies, no pass
\* completes normally; a pass fails with RuntimeError (from StopIteration) at
\* the step that asks for the first missing batch, after yielding the batch
\* of every earlier step, and does not fail before that step.
C3_Exhaustion ==
    \A p \in PassIds :
        LET g == passes[p] IN
        /\ ShortTasks # {} => g.status # "done"
        /\ g.status = "error" =>
               /\ g.error.kind = "RuntimeError"
               /\ g.error.cause = "StopIteration"
               /\ g.error.task_name \in ShortTasks
               /\ g.error.step = FirstMissingStep(g, g.error.task_name)
               /\ Len(g.out) = g.error.step - 1
               /\ \A i \in 1..(g.error.step - 1) :
                      g.out[i].task_name = task_name_list[g.task_choice_list[i]]
        /\ g.status = "running" =>
               \A t \in ShortTasks :
                   CountTagged(g.out, t) <= dataloader_dict[t].supply

\* A pass that failed after yielding some batches, one of them of the task
\* that then ran out.
C3_Witness ==
    \E p \in PassIds :
        /\ passes[p].status = "error"
        /\ Len(passes[p].out) >= 2
        /\ CountTagged(passes[p].out, passes[p].error.task_name) >= 1

\* C9: every started pass has its own shuffled task-occurrence list and its
\* own per-task iterators, which no other pass advances: each iterator has
\* produced exactly the batches this pass yielded for its task. Hence every
\* pass over sources that supply their declared counts, whether it follows a
\* finished pass or runs beside a partly consumed one, completes with the
\* full counts.
C9_FreshPass ==
    \A p \in PassIds :
        LET g == passes[p] IN
        Started(g) =>
            /\ Len(g.task_choice_list) = Len(TaskChoiceListFrom(1))
            /\ \A i \in 1..Len(task_name_list) :
                   Count(g.task_choice_list, i) = num_batches_dict[task_name_list[i]]
            /\ DOMAIN g.iters = DOMAIN dataloader_dict
            /\ \A t \in DOMAIN g.iters : g.iters[t] = CountTagged(g.out, t)
            /\ SuppliesDeclared =>
                   /\ g.status # "error"
                   /\ g.status = "done" =>
                          /\ Len(g.out) = SumDeclared
                          /\ \A t \in TaskNames : CountTagged(g.out, t) = Declared(t)

\* A pass completed in full while another pass of the same sampler, shuffled
\* differently, is partly consumed.
C9_Witness ==
    \E p, q \in PassIds :
        /\ p # q
        /\ passes[p].status = "done"
        /\ Len(passes[p].out) = SumDeclared
        /\ SumDeclared >= 3
        /\ passes[q].status = "running"
        /\ Len(passes[q].out) \in 1..(SumDeclared - 1)
        /\ passes[q].task_choice_list # passes[p].task_choice_list

\* C10: in every pass the batches tagged t are the 1st, 2nd, ... batch of the
\* task's own iterator, in that order, never beyond count(t); a completed pass
\* over sources that supply their counts holds exactly the first count(t).
C10_InOrder ==
    \A p \in PassIds : \A t \in TaskNames :
        LET seq == TaggedWith(passes[p].out, t) IN
        /\ seq = [i \in 1..Len(seq) |-> i]
        /\ Len(seq) <= Declared(t)
        /\ (passes[p].status = "done" /\ SuppliesDeclared) => Len(seq) = Declared(t)

\* A completed pass in which a source with a surplus batch was interleaved
\* with another task.
C10_Witness ==
    \E p \in PassIds : \E t \in DOMAIN dataloader_dict :
        /\ passes[p].status = "done"
        /\ dataloader_dict[t].supply > dataloader_dict[t].len
        /\ TaggedWith(passes[p].out, t) = <<1, 2>>
        /\ Len(passes[p].out) > 2
        /\ passes[p].out[1].task_name = t
        /\ passes[p].out[2].task_name # t

\* ------------------------------------------------------------------------
\* The model's properties
\* ------------------------------------------------------------------------
ClassOf(i) == model_type_dict[i][2]
TaskOf(i) == model_type_dict[i][1]

\* The index of the item of model_type_dict that configures task t.
ItemOf(t) == CHOOSE i \in DOMAIN model_type_dict : TaskOf(i) = t

\* The encoders some task model or the router still refers to.
LiveEncoders ==
    {encoder} \cup
    UNION {Range(taskmodels_dict[t].attrs) : t \in DOMAIN taskmodels_dict}

\* C4: after create over a non-empty task mapping of supported families, the
\* router's encoder is the one the first model loaded, every head's encoder
\* attribute (the first head's and every later one's, of whatever family)
\* refers to it, and no head refers to any other encoder.
C4_SharedEncoder ==
    (create_result.kind = "model" /\ model_type_dict # <<>>) =>
        /\ encoder = Encoder(1)
        /\ DOMAIN taskmodels_dict = {TaskOf(i) : i \in DOMAIN model_type_dict}
        /\ \A t \in DOMAIN taskmodels_dict :
               /\ taskmodels_dict[t].class = ClassOf(ItemOf(t))
               /\ taskmodels_dict[t].attrs[OwnEncoderAttr(ClassOf(ItemOf(t)))]
                      = encoder
        /\ LiveEncoders = {Encoder(1)}

\* A model of three heads of three different families.
C4_Witness ==
    /\ create_result.kind = "model"
    /\ Len(model_type_dict) = 3
    /\ ClassOf(1) = RobertaForMaskedLM
    /\ ClassOf(2) = BertForMaskedLM
    /\ ClassOf(3) = AlbertForMaskedLM
    /\ taskmodels_dict[TaskOf(3)].attrs["albert"] = Encoder(1)

\* C5: a forward call with an identifier the head mapping lacks fails with
\* KeyError and invokes no head (a model created from an empty mapping has no
\* encoder and fails so on every call); any other call invokes the head
\* registered under the identifier, and only it, with the given inputs, and
\* returns what that head returned.
C5_Forward ==
    /\ (create_result.kind = "model" /\ model_type_dict = <<>>) =>
           /\ encoder = NoEncoder
           /\ taskmodels_dict = <<>>
    /\ forward_call # NoCall =>
           IF forward_call.task_name \in {TaskOf(i) : i \in DOMAIN model_type_dict}
           THEN /\ forward_call.kind = "return"
                /\ forward_call.invoked = <<forward_call.task_name>>
                /\ forward_call.value.head = ItemOf(forward_call.task_name)
                /\ forward_call.value.kwargs = forward_call.kwargs
                /\ forward_call.value.encoder = encoder
           ELSE /\ forward_call.kind = "KeyError"
                /\ forward_call.invoked = <<>>

\* A call for an unknown identifier on a model that has heads.
C5_Witness ==
    /\ forward_call # NoCall
    /\ forward_call.kind = "KeyError"
    /\ forward_call.task_name = AbsentTask
    /\ Len(model_type_dict) = 2

\* The families the registry knows, by class.
RegistryAttr(model_class_name) ==
    CASE model_class_name = BertForMaskedLM -> Returned("bert")
      [] model_class_name = RobertaForMaskedLM -> Returned("roberta")
      [] model_class_name = AlbertForMaskedLM -> Returned("albert")
      [] OTHER -> KeyError(model_class_name)

Unsupported == {i \in DOMAIN model_type_dict : RegistryAttr(ClassOf(i)).kind = "KeyError"}

\* C8: every architecture lookup create made resolved a Bert, Roberta or
\* Albert class to "bert", "roberta" or "albert" and raised KeyError for any
\* other class; create looked every task's model up, in order, up to the
\* first unsupported one, where it failed with that KeyError and returned no
\* model; with no unsupported class it returned a model.
C8_ArchitectureLookup ==
    create_result # NotCreated =>
        /\ \A i \in DOMAIN create_result.lookups :
               create_result.lookups[i] = RegistryAttr(ClassOf(i))
        /\ IF Unsupported = {}
           THEN /\ create_result.kind = "model"
                /\ Len(create_result.lookups) = Len(model_type_dict)
           ELSE /\ create_result.kind = "KeyError"
                /\ Len(create_result.lookups) \in Unsupported
                /\ \A i \in Unsupported : Len(create_result.lookups) <= i
                /\ encoder = NoEncoder
                /\ taskmodels_dict = <<>>

\* create failed on a second model whose class name holds "Bert" without
\* starting with it.
C8_Witness ==
    /\ create_result.kind = "KeyError"
    /\ Len(model_type_dict) = 3
    /\ ClassOf(1) = AlbertForMaskedLM
    /\ ClassOf(2) = DistilBertForMaskedLM
    /\ create_result.lookups = <<Returned("albert"), KeyError(DistilBertForMaskedLM)>>

\* ------------------------------------------------------------------------
\* The collator's properties
\* ------------------------------------------------------------------------
HasKey(value, k) == value.kind = "dict" /\ k \in DOMAIN value.fields

\* C6: for examples that are field mappings whose first has no "labels" or a
\* null one, collate_batch does not fail: what it returns has no "labels"
\* key and holds the stacked value of every other field of the first example
\* that is neither null nor a string.
C6_NoLabels ==
    (/\ collate_result # NotCalled
     /\ features[1].kind = "dict"
     /\ \/ "labels" \notin DOMAIN features[1].fields
        \/ features[1].fields["labels"] = NoneValue) =>
        /\ collate_result.kind = "return"
        /\ ~HasKey(collate_result.value, "labels")
        /\ \A k \in StackedKeys(features[1]) :
               /\ HasKey(collate_result.value, k)
               /\ collate_result.value.fields[k] = Stack(features, k)

\* ------------------------------------------------------------------------
\* The trainer's properties
\* ------------------------------------------------------------------------
\* C7: with train_dataset None, get_train_dataloader fails with ValueError
\* "Trainer: training requires a train_dataset." and with no other error,
\* and builds neither a per-task batch source nor a sampler.
C7_MissingTrainingData ==
    (train_dataset = NoDataset /\ loader_result # NoLoader) =>
        /\ loader_result.kind = "ValueError"
        /\ loader_result.message = "Trainer: training requires a train_dataset."
        /\ loader_result.sources = 0
        /\ ~loader_result.sampler
====
